---- MODULE Spec2Model ----
(***************************************************************************)
(* Model of encrypt-driver.c: a five-thread pipeline (reader, input        *)
(* counter, encryptor, output counter, writer) over two circular char      *)
(* buffers, synchronised by counting semaphores and one mutex, plus the    *)
(* reset_requested / reset_finished pair that the encrypt module calls     *)
(* from its own thread.  The label of a thread names the statement it      *)
(* executes next.  An action is a run of consecutive statements of one     *)
(* thread with at most one access that another thread can race with:       *)
(* sem_wait/lock only delay the thread itself and are joined to the        *)
(* statement after them, sem_post only enables others and consecutive      *)
(* posts are joined, statements on private data are joined to a neighbour. *)
(*                                                                         *)
(* char is the signed 8-bit char of the x86-64 Linux build the Makefile    *)
(* targets; EOF is -1.                                                     *)
(***************************************************************************)
EXTENDS Integers, Sequences, FiniteSets, TLC

\* ------------------------------------------------------------------ bounds
MaxLen == 2        \* longest input file, in bytes
MaxCap == 2        \* largest buffer size n, m typed at the prompts
MaxResets == 1     \* calls of reset_requested made by the encrypt module

\* --------------------------------------------------------------- constants
EOF == 0 - 1
Key == 1
FF == 255                   \* the byte 0xFF, whose char value equals EOF
Uninit == 999               \* a malloc'ed slot nobody has written yet

Stages == {"R", "IC", "E", "OC", "W"}
Consumers == {"IC", "E", "OC", "W"}

VARIABLES
  n, m,                  \* buffer sizes
  S, pos,                \* input file and the file position of read_input
  input_buffer, output_buffer,
  input_buffer_in, input_buffer_out, output_buffer_in, output_buffer_out,
  input_count, output_count,
  sem,                   \* value of every semaphore
  reader_lock,           \* "free", "reader" or "reset"
  pc,                    \* next statement of every thread
  c,                     \* the local char c of every stage thread
  sink,                  \* bytes handed to write_output, in order
  cin, cout,             \* bytes handed to count_input / count_output, in order
  eofSeen,               \* per stage: how often it read EOF from its buffer (reader: from the file)
  completed,             \* data items the reader finished (unlocked after a non-EOF char)
  resets,                \* calls of reset_requested so far
  mainpc,                \* next statement of main
  rejected,              \* main has printed "Invalid buffer" for a typed size
  moved,                 \* slots written / retired so far, per buffer
  unread                 \* <<buffer, slot, stage>>: the slot holds a written item the stage has not loaded

vars == <<n, m, S, pos, input_buffer, output_buffer, input_buffer_in,
          input_buffer_out, output_buffer_in, output_buffer_out, input_count,
          output_count, sem, reader_lock, pc, c, sink, cin, cout, eofSeen,
          completed, resets, mainpc, rejected, moved,
          unread>>

\* ------------------------------------------------------------ conversions
\* int -> char (signed, 8 bit): what `char c = read_input();` and
\* `output_buffer[i] = encrypt(c);` store.
ToChar(v) == LET u == (v + 256) % 256 IN IF u > 127 THEN u - 256 ELSE u

\* char -> byte written to the file by write_output (fputc converts to unsigned char)
ToByte(v) == (v + 256) % 256

\* the cipher of the encrypt module: letters are rotated by Key, the rest is kept
encrypt(v) ==
  IF v >= 65 /\ v <= 90 THEN 65 + ((v - 65 + Key) % 26)
  ELSE IF v >= 97 /\ v <= 122 THEN 97 + ((v - 97 + Key) % 26)
  ELSE v

\* read_input(): the next byte of the file as an int, or EOF at its end
read_input == IF pos < Len(S) THEN S[pos + 1] ELSE EOF

\* values an uninitialised slot can turn out to hold: any char; the model
\* keeps one that is EOF and one that is not (0, a fresh page)
CharVals == {ToChar(255), ToChar(0)}

\* the values a load of slot may yield
Load(buf, i) == IF buf[i] = Uninit THEN CharVals ELSE {buf[i]}

\* ------------------------------------------------------------- semaphores
SemNames == {"counter_data_ready", "encryptor_data_ready",
             "output_counter_data_ready", "writer_data_ready",
             "counter_done", "encryptor_done", "output_counter_done",
             "writer_done", "counter_reset_ready", "encryptor_reset_ready",
             "output_counter_reset_ready", "writer_reset_ready"}

sem_wait(s) == sem[s] > 0 /\ sem' = [sem EXCEPT ![s] = @ - 1]

\* two consecutive posts / two consecutive waits of one thread
sem_post2(s, t) == sem' = [sem EXCEPT ![s] = @ + 1, ![t] = @ + 1]
\* waits that return at once, whatever the semaphores hold
sem_wait2Skipped(s, t) == sem' = sem
sem_wait2(s, t) ==
  /\ sem[s] > 0
  /\ sem[t] > 0
  /\ sem' = [sem EXCEPT ![s] = @ - 1, ![t] = @ - 1]

ResetReady == {"counter_reset_ready", "encryptor_reset_ready",
               "output_counter_reset_ready", "writer_reset_ready"}

\* a wait followed, after the access it guards, by one or two posts
sem_take_post(w, s) ==
  /\ sem[w] > 0
  /\ sem' = [sem EXCEPT ![w] = @ - 1, ![s] = @ + 1]
sem_take_post2(w, s, t) ==
  /\ sem[w] > 0
  /\ sem' = [sem EXCEPT ![w] = @ - 1, ![s] = @ + 1, ![t] = @ + 1]

\* a mutex that lets a second thread in
MutexFreeBroken == TRUE
\* pthread_mutex_lock returns only when nobody holds the mutex
MutexFree == reader_lock = "free"

\* lines 250-254: the five joins of main have returned
AllExited == \A t \in Stages : pc[t] = "done"

Goto(t, l) == pc' = [pc EXCEPT ![t] = l]

\* per buffer: slots written, slots retired, stores of the sentinel, stores
\* made after a store of the sentinel
NothingMoved ==
  [in_written |-> 0, in_retired |-> 0, out_written |-> 0, out_retired |-> 0,
   in_eof |-> 0, out_eof |-> 0, in_after |-> 0, out_after |-> 0]

\* the record after a store of the char v to the input / output buffer
StoredIn(v) ==
  [moved EXCEPT !.in_written = @ + 1,
                !.in_eof = IF v = EOF THEN @ + 1 ELSE @,
                !.in_after = IF moved.in_eof > 0 THEN @ + 1 ELSE @]
StoredOut(v) ==
  [moved EXCEPT !.out_written = @ + 1,
                !.out_eof = IF v = EOF THEN @ + 1 ELSE @,
                !.out_after = IF moved.out_eof > 0 THEN @ + 1 ELSE @]

\* a store to slot i of buffer b, to be loaded by the stages s and t
Stored(b, i, s, t) == unread' = unread \cup {<<b, i, s>>, <<b, i, t>>}
\* a load of slot i of buffer b by stage t
Loaded(b, i, t) == unread' = unread \ {<<b, i, t>>}

\* ------------------------------------------------------------------- Init
\* The threads only compare a char with EOF and hand it on, so the input
\* files are drawn with a different letter at every position ('A', 'B', ...),
\* which makes every duplication, loss or reordering visible, and with the
\* byte 0xFF at any subset of the positions.
Inputs == UNION {{[i \in 1..k |-> IF i \in F THEN FF ELSE 64 + i] : F \in SUBSET (1..k)} :
                 k \in 0..MaxLen}

Init ==
  /\ n \in 1..MaxCap
  /\ m \in 1..MaxCap
  /\ S \in Inputs
  /\ pos = 0
  /\ input_buffer = [i \in 0..(n - 1) |-> Uninit]
  /\ output_buffer = [i \in 0..(m - 1) |-> Uninit]
  /\ input_buffer_in = 0
  /\ input_buffer_out = 0
  /\ output_buffer_in = 0
  /\ output_buffer_out = 0
  /\ input_count = 0
  /\ output_count = 0
  /\ sem = [s \in SemNames |-> 0]
  /\ reader_lock = "free"
  /\ pc = [t \in Stages \cup {"X"} |->
             CASE t = "R" -> "r_lock"
               [] t = "IC" -> "ic_wait"
               [] t = "E" -> "e_wait"
               [] t = "OC" -> "oc_wait"
               [] t = "W" -> "w_wait"
               [] OTHER -> "x_idle"]
  /\ c = [t \in Stages |-> 0]
  /\ sink = <<>>
  /\ cin = <<>>
  /\ cout = <<>>
  /\ eofSeen = [t \in Stages |-> 0]
  /\ completed = 0
  /\ resets = 0
  /\ mainpc = "join"
  /\ rejected = FALSE
  /\ moved = NothingMoved
  /\ unread = {}

\* what main fixes before the threads run, and main's own position
conf == <<n, m, S, mainpc, rejected>>
ibuf == <<input_buffer, input_buffer_in, input_buffer_out>>
obuf == <<output_buffer, output_buffer_in, output_buffer_out>>
counts == <<input_count, output_count>>
outs == <<sink, cin, cout>>
hist == <<eofSeen, completed, resets>>

\* ----------------------------------------------------------- readerThread
\* a loop that is not left at the sentinel
ReaderLoopsOn(v) == TRUE
\* line 70: } while (c != EOF)
ReaderLoops(v) == v # EOF

\* lines 54-63: pthread_mutex_lock(&reader_lock); c = read_input();
\* input_buffer[input_buffer_in] = c; input_buffer_in = (input_buffer_in + 1) % n;
\* sem_post(&counter_data_ready); sem_post(&encryptor_data_ready)
ReaderProduce ==
  /\ pc["R"] = "r_lock"
  /\ MutexFree
  /\ reader_lock' = "reader"
  /\ c' = [c EXCEPT !["R"] = ToChar(read_input)]
  /\ pos' = IF pos < Len(S) THEN pos + 1 ELSE pos
  /\ eofSeen' = [eofSeen EXCEPT !["R"] = IF ToChar(read_input) = EOF THEN @ + 1 ELSE @]
  /\ input_buffer' = [input_buffer EXCEPT ![input_buffer_in] = ToChar(read_input)]
  /\ input_buffer_in' = (input_buffer_in + 1) % n
  /\ sem_post2("counter_data_ready", "encryptor_data_ready")
  /\ Goto("R", "r_wait")
  /\ moved' = StoredIn(ToChar(read_input))
  /\ Stored("in", input_buffer_in, "IC", "E")
  /\ UNCHANGED <<conf, input_buffer_out, obuf, counts, outs, completed, resets>>

\* lines 66-70: sem_wait(&counter_done); sem_wait(&encryptor_done);
\* pthread_mutex_unlock(&reader_lock); } while (c != EOF)
ReaderUnlock ==
  /\ pc["R"] = "r_wait"
  /\ sem_wait2("counter_done", "encryptor_done")
  /\ reader_lock' = "free"
  /\ completed' = IF c["R"] # EOF THEN completed + 1 ELSE completed
  /\ Goto("R", IF ReaderLoops(c["R"]) THEN "r_lock" ELSE "r_fin")
  /\ UNCHANGED <<conf, pos, ibuf, obuf, counts, moved, unread, c, outs, eofSeen, resets>>

\* lines 73-75: the two posts after the loop, then return
ReaderFinish ==
  /\ pc["R"] = "r_fin"
  /\ sem_post2("counter_data_ready", "encryptor_data_ready")
  /\ Goto("R", "done")
  /\ UNCHANGED <<conf, pos, ibuf, obuf, counts, moved, unread, reader_lock, c, outs, hist>>

readerThread == ReaderProduce \/ ReaderUnlock \/ ReaderFinish

\* ----------------------------------------------------- inputCounterThread
\* lines 82-85: sem_wait(&counter_data_ready); c = input_buffer[input_buffer_out];
\* sem_post(&counter_done); sem_post(&counter_reset_ready)
CounterTake ==
  /\ pc["IC"] = "ic_wait"
  /\ sem_take_post2("counter_data_ready", "counter_done", "counter_reset_ready")
  /\ \E v \in Load(input_buffer, input_buffer_out) :
       /\ c' = [c EXCEPT !["IC"] = v]
       /\ input_buffer' = [input_buffer EXCEPT ![input_buffer_out] = v]
       /\ eofSeen' = [eofSeen EXCEPT !["IC"] = IF v = EOF THEN @ + 1 ELSE @]
  /\ Goto("IC", "ic_count")
  /\ Loaded("in", input_buffer_out, "IC")
  /\ UNCHANGED <<conf, pos, input_buffer_in, input_buffer_out, obuf, counts, moved,
                 reader_lock, outs, completed, resets>>

\* lines 87-90: if (c != EOF) count_input(c); } while (c != EOF)
CounterCount ==
  /\ pc["IC"] = "ic_count"
  /\ cin' = IF c["IC"] # EOF THEN Append(cin, ToByte(c["IC"])) ELSE cin
  /\ Goto("IC", IF c["IC"] # EOF THEN "ic_wait" ELSE "done")
  /\ UNCHANGED <<conf, pos, ibuf, obuf, counts, moved, unread, sem, reader_lock, c, sink, cout, hist>>

inputCounterThread == CounterTake \/ CounterCount

\* -------------------------------------------------------- encryptorThread
\* lines 98-103: sem_wait(&encryptor_data_ready); c = input_buffer[input_buffer_out];
\* input_buffer_out = (input_buffer_out + 1) % n; sem_post(&encryptor_done);
\* if (c != EOF) is false: lines 111-118, sem_post(&encryptor_reset_ready)
\* and the loop is left
EncryptorTake ==
  /\ pc["E"] = "e_wait"
  /\ \E v \in Load(input_buffer, input_buffer_out) :
       /\ c' = [c EXCEPT !["E"] = v]
       /\ input_buffer' = [input_buffer EXCEPT ![input_buffer_out] = v]
       /\ eofSeen' = [eofSeen EXCEPT !["E"] = IF v = EOF THEN @ + 1 ELSE @]
       /\ IF v # EOF
            THEN sem_take_post("encryptor_data_ready", "encryptor_done")
            ELSE sem_take_post2("encryptor_data_ready", "encryptor_done",
                                "encryptor_reset_ready")
  /\ input_buffer_out' = (input_buffer_out + 1) % n
  /\ Goto("E", IF c'["E"] # EOF THEN "e_write" ELSE "e_fwrite")
  /\ moved' = [moved EXCEPT !.in_retired = @ + 1]
  /\ Loaded("in", input_buffer_out, "E")
  /\ UNCHANGED <<conf, pos, input_buffer_in, obuf, counts, reader_lock, outs,
                 completed, resets>>

\* line 104: output_buffer[output_buffer_in] = encrypt(c)
EncryptorWrite ==
  /\ pc["E"] = "e_write"
  /\ output_buffer' = [output_buffer EXCEPT ![output_buffer_in] = ToChar(encrypt(c["E"]))]
  /\ Goto("E", "e_adv")
  /\ moved' = StoredOut(ToChar(encrypt(c["E"])))
  /\ Stored("out", output_buffer_in, "OC", "W")
  /\ UNCHANGED <<conf, pos, ibuf, output_buffer_in, output_buffer_out, counts,
                 sem, reader_lock, c, outs, hist>>

\* lines 105-114: output_buffer_in = (output_buffer_in + 1) % m;
\* sem_post(&output_counter_data_ready); sem_post(&writer_data_ready);
\* sem_post(&encryptor_reset_ready); if (c != EOF) is true
EncryptorPublish ==
  /\ pc["E"] = "e_adv"
  /\ output_buffer_in' = (output_buffer_in + 1) % m
  /\ sem' = [sem EXCEPT !["output_counter_data_ready"] = @ + 1,
                        !["writer_data_ready"] = @ + 1,
                        !["encryptor_reset_ready"] = @ + 1]
  /\ Goto("E", "e_wait2")
  /\ UNCHANGED <<conf, pos, ibuf, output_buffer, output_buffer_out, counts, moved, unread,
                 reader_lock, c, outs, hist>>

\* lines 115-118: sem_wait(&output_counter_done); sem_wait(&writer_done); loop
EncryptorWaitDone ==
  /\ pc["E"] = "e_wait2"
  /\ sem_wait2("output_counter_done", "writer_done")
  /\ Goto("E", "e_wait")
  /\ UNCHANGED <<conf, pos, ibuf, obuf, counts, moved, unread, reader_lock, c, outs, hist>>

\* lines 121-125: output_buffer[output_buffer_in] = EOF; the cursor is
\* advanced; the two posts after the loop; return
EncryptorFinish ==
  /\ pc["E"] = "e_fwrite"
  /\ output_buffer' = [output_buffer EXCEPT ![output_buffer_in] = ToChar(EOF)]
  /\ output_buffer_in' = (output_buffer_in + 1) % m
  /\ sem_post2("output_counter_data_ready", "writer_data_ready")
  /\ Goto("E", "done")
  /\ moved' = StoredOut(ToChar(EOF))
  /\ Stored("out", output_buffer_in, "OC", "W")
  /\ UNCHANGED <<conf, pos, ibuf, output_buffer_out, counts, reader_lock, c,
                 outs, hist>>

encryptorThread ==
  \/ EncryptorTake \/ EncryptorWrite \/ EncryptorPublish
  \/ EncryptorWaitDone \/ EncryptorFinish

\* -------------------------------------------------- outputCounterThread
\* lines 132-139, one iteration: sem_wait(&output_counter_data_ready);
\* c = output_buffer[output_buffer_out]; if (c != EOF) count_output(c);
\* sem_post(&output_counter_done); sem_post(&output_counter_reset_ready);
\* } while (c != EOF)
OutputCounterStep ==
  /\ pc["OC"] = "oc_wait"
  /\ sem_take_post2("output_counter_data_ready", "output_counter_done",
                    "output_counter_reset_ready")
  /\ \E v \in Load(output_buffer, output_buffer_out) :
       /\ c' = [c EXCEPT !["OC"] = v]
       /\ output_buffer' = [output_buffer EXCEPT ![output_buffer_out] = v]
       /\ eofSeen' = [eofSeen EXCEPT !["OC"] = IF v = EOF THEN @ + 1 ELSE @]
       /\ cout' = IF v # EOF THEN Append(cout, ToByte(v)) ELSE cout
       /\ Goto("OC", IF v # EOF THEN "oc_wait" ELSE "done")
  /\ Loaded("out", output_buffer_out, "OC")
  /\ UNCHANGED <<conf, pos, ibuf, output_buffer_in, output_buffer_out, counts, moved,
                 reader_lock, sink, cin, completed, resets>>

outputCounterThread == OutputCounterStep

\* ----------------------------------------------------------- writerThread
\* lines 147-148: sem_wait(&writer_data_ready); c = output_buffer[output_buffer_out]
WriterTake ==
  /\ pc["W"] = "w_wait"
  /\ sem_wait("writer_data_ready")
  /\ \E v \in Load(output_buffer, output_buffer_out) :
       /\ c' = [c EXCEPT !["W"] = v]
       /\ output_buffer' = [output_buffer EXCEPT ![output_buffer_out] = v]
       /\ eofSeen' = [eofSeen EXCEPT !["W"] = IF v = EOF THEN @ + 1 ELSE @]
  /\ Goto("W", "w_adv")
  /\ Loaded("out", output_buffer_out, "W")
  /\ UNCHANGED <<conf, pos, ibuf, output_buffer_in, output_buffer_out, counts, moved,
                 reader_lock, outs, completed, resets>>

\* lines 149-156: output_buffer_out = (output_buffer_out + 1) % m;
\* if (c != EOF) write_output(c); sem_post(&writer_done);
\* sem_post(&writer_reset_ready); } while (c != EOF)
WriterRetire ==
  /\ pc["W"] = "w_adv"
  /\ output_buffer_out' = (output_buffer_out + 1) % m
  /\ sink' = IF c["W"] # EOF THEN Append(sink, ToByte(c["W"])) ELSE sink
  /\ sem_post2("writer_done", "writer_reset_ready")
  /\ Goto("W", IF c["W"] # EOF THEN "w_wait" ELSE "done")
  /\ moved' = [moved EXCEPT !.out_retired = @ + 1]
  /\ UNCHANGED <<unread, conf, pos, ibuf, output_buffer, output_buffer_in, counts,
                 reader_lock, c, cin, cout, hist>>

writerThread == WriterTake \/ WriterRetire

\* ------------------------------------- reset_requested / reset_finished
\* line 162: pthread_mutex_lock(&reader_lock), at any moment of the run the
\* encrypt module chooses to change the key (main returns, and the process
\* ends, once the five threads are joined)
ResetLock ==
  /\ pc["X"] = "x_idle"
  /\ ~AllExited
  /\ resets < MaxResets
  /\ MutexFree
  /\ reader_lock' = "reset"
  /\ resets' = resets + 1
  /\ Goto("X", "x_wait")
  /\ UNCHANGED <<conf, pos, ibuf, obuf, counts, moved, unread, sem, c, outs, eofSeen, completed>>

\* lines 163-169: the four sem_wait on the reset-ready semaphores;
\* input_buffer_in = 0
ResetWait ==
  /\ pc["X"] = "x_wait"
  /\ \A s \in ResetReady : sem[s] > 0
  /\ sem' = [s \in SemNames |-> IF s \in ResetReady THEN sem[s] - 1 ELSE sem[s]]
  /\ input_buffer_in' = 0
  /\ Goto("X", "x_z2")
  /\ UNCHANGED <<conf, pos, input_buffer, input_buffer_out, obuf, counts, moved, unread,
                 reader_lock, c, outs, hist>>

\* lines 170-174: input_buffer_out = 0; output_buffer_in = 0;
\* output_buffer_out = 0; input_count = 0; output_count = 0
ResetCursors ==
  /\ pc["X"] = "x_z2"
  /\ input_buffer_out' = 0
  /\ output_buffer_in' = 0
  /\ output_buffer_out' = 0
  /\ input_count' = 0
  /\ output_count' = 0
  /\ Goto("X", "x_log")
  /\ UNCHANGED <<moved, unread, conf, pos, input_buffer, input_buffer_in, output_buffer, sem,
                 reader_lock, c, outs, hist>>

\* line 176: log_counts(); then reset_requested returns to the module
ResetLog ==
  /\ pc["X"] = "x_log"
  /\ Goto("X", "x_held")
  /\ UNCHANGED <<conf, pos, ibuf, obuf, counts, moved, unread, sem, reader_lock, c, outs, hist>>

\* line 181: reset_finished: pthread_mutex_unlock(&reader_lock)
reset_finished ==
  /\ pc["X"] = "x_held"
  /\ reader_lock' = "free"
  /\ Goto("X", "x_idle")
  /\ UNCHANGED <<conf, pos, ibuf, obuf, counts, moved, unread, sem, c, outs, hist>>

reset_requested == ResetLock \/ ResetWait \/ ResetCursors \/ ResetLog

\* ------------------------------------------------------------------- main
\* sizes typed at the two prompts
Typed == (0 - 1)..MaxCap

\* a size that lets the prompt through everywhere
ValidCapAlways(v) == TRUE
\* lines 198-199 and 204-205: the prompt is left when the size is not < 1
ValidCap(v) == ~(v < 1)

\* a join that returns while the thread still runs
JoinedEarly(t) == TRUE
\* pthread_join(t) returns once thread t has returned
Joined(t) == pc[t] = "done"

\* the state at line 195: globals zero, no buffer, no thread
InitMain ==
  /\ n = 0
  /\ m = 0
  /\ S \in Inputs
  /\ pos = 0
  /\ input_buffer = [i \in {} |-> Uninit]
  /\ output_buffer = [i \in {} |-> Uninit]
  /\ input_buffer_in = 0
  /\ input_buffer_out = 0
  /\ output_buffer_in = 0
  /\ output_buffer_out = 0
  /\ input_count = 0
  /\ output_count = 0
  /\ sem = [s \in SemNames |-> 0]
  /\ reader_lock = "free"
  /\ pc = [t \in Stages \cup {"X"} |-> "unborn"]
  /\ c = [t \in Stages |-> 0]
  /\ sink = <<>>
  /\ cin = <<>>
  /\ cout = <<>>
  /\ eofSeen = [t \in Stages |-> 0]
  /\ completed = 0
  /\ resets = 0
  /\ mainpc = "prompt_n"
  /\ rejected = FALSE
  /\ moved = NothingMoved
  /\ unread = {}

run == <<pos, ibuf, obuf, counts, moved, unread, sem, reader_lock, pc, c, outs, hist>>

\* lines 195-199: do { scanf("%d", &n); if (n < 1) printf("Invalid buffer..."); }
\* while (n < 1)
MainPromptN ==
  /\ mainpc = "prompt_n"
  /\ \E v \in Typed :
       /\ n' = v
       /\ mainpc' = IF ValidCap(v) THEN "prompt_m" ELSE "prompt_n"
       /\ rejected' = (rejected \/ v < 1)
  /\ UNCHANGED <<m, S, run>>

\* lines 201-205: the same for m
MainPromptM ==
  /\ mainpc = "prompt_m"
  /\ \E v \in Typed :
       /\ m' = v
       /\ mainpc' = IF ValidCap(v) THEN "alloc" ELSE "prompt_m"
       /\ rejected' = (rejected \/ v < 1)
  /\ UNCHANGED <<n, S, run>>

\* lines 208-213 when malloc returns NULL: message and exit(1)
MainAllocFail ==
  /\ mainpc = "alloc"
  /\ mainpc' = "exit1"
  /\ UNCHANGED <<n, m, S, rejected, run>>

\* lines 208-247: both malloc succeed; counts zeroed; sem_init(.., 0, 0);
\* pthread_mutex_init; the five pthread_create
MainStart ==
  /\ mainpc = "alloc"
  /\ input_buffer' = [i \in 0..(n - 1) |-> Uninit]
  /\ output_buffer' = [i \in 0..(m - 1) |-> Uninit]
  /\ input_count' = 0
  /\ output_count' = 0
  /\ sem' = [s \in SemNames |-> 0]
  /\ reader_lock' = "free"
  /\ pc' = [t \in Stages \cup {"X"} |->
              CASE t = "R" -> "r_lock"
                [] t = "IC" -> "ic_wait"
                [] t = "E" -> "e_wait"
                [] t = "OC" -> "oc_wait"
                [] t = "W" -> "w_wait"
                [] OTHER -> "x_idle"]
  /\ mainpc' = "join"
  /\ UNCHANGED <<moved, unread, n, m, S, rejected, pos, input_buffer_in, input_buffer_out,
                 output_buffer_in, output_buffer_out, c, outs, hist>>

mainStartup == MainPromptN \/ MainPromptM \/ MainAllocFail \/ MainStart

\* lines 250-254: the five pthread_join have returned
MainJoin ==
  /\ mainpc = "join"
  /\ \A t \in Stages : Joined(t)
  /\ mainpc' = "destroy"
  /\ UNCHANGED <<n, m, S, rejected, run>>

\* lines 257-276: pthread_mutex_destroy and the sem_destroy calls
MainDestroy ==
  /\ mainpc = "destroy"
  /\ mainpc' = "free"
  /\ UNCHANGED <<n, m, S, rejected, run>>

\* lines 279-280: free(input_buffer); free(output_buffer)
MainFree ==
  /\ mainpc = "free"
  /\ mainpc' = "log"
  /\ UNCHANGED <<n, m, S, rejected, run>>

\* lines 282-284: the final log_counts(); return 0
MainLog ==
  /\ mainpc = "log"
  /\ mainpc' = "exit"
  /\ UNCHANGED <<n, m, S, rejected, run>>

mainShutdown == MainJoin \/ MainDestroy \/ MainFree \/ MainLog

\* --------------------------------------------------------- specifications
Pipeline ==
  \/ readerThread \/ inputCounterThread \/ encryptorThread
  \/ outputCounterThread \/ writerThread

Next == Pipeline \/ reset_requested \/ reset_finished \/ mainShutdown

\* every run of the program on a text file (no byte 0xFF), resets included
InitText == Init /\ \A i \in 1..Len(S) : S[i] # FF
Spec == InitText /\ [][Next]_vars

\* the runs of Spec with one slot in each buffer
InitOneSlot == InitText /\ n = 1 /\ m = 1
SpecOneSlot == InitOneSlot /\ [][Next]_vars

\* the runs in which the module never asks for a reset
SpecNoReset == Init /\ [][Pipeline]_vars

\* main from its first prompt on, with the threads it starts (no reset)
NextMain == mainStartup \/ Pipeline \/ mainShutdown
SpecMain == InitMain /\ [][NextMain]_vars

\* ------------------------------------------------------- what is expected
IsPrefix(a, b) == Len(a) <= Len(b) /\ \A i \in 1..Len(a) : a[i] = b[i]

\* transform(S[0]), ..., transform(S[k-1]) as bytes of the sink
Transformed(s) == [i \in 1..Len(s) |-> ToByte(encrypt(s[i]))]

\* no byte of s has the char value of the sentinel
IsText(s) == \A i \in 1..Len(s) : s[i] # FF

\* a and b hold the same values the same number of times / a holds no value
\* more often than b
Count(a, v) == Cardinality({i \in 1..Len(a) : a[i] = v})
Values(a) == {a[i] : i \in 1..Len(a)}
SameBag(a, b) == \A v \in Values(a) \cup Values(b) : Count(a, v) = Count(b, v)
SubBag(a, b) == \A v \in Values(a) : Count(a, v) <= Count(b, v)

\* the bytes of s in front of its first byte 0xFF
TextPrefix(s) ==
  LET stops == {i \in 1..Len(s) : s[i] = FF}
  IN IF stops = {} THEN s
     ELSE SubSeq(s, 1, (CHOOSE i \in stops : \A j \in stops : i <= j) - 1)

\* no thread of the pipeline can take a step
PipelineStuck == ~ENABLED Pipeline
\* no thread at all can take a step
Stuck == ~ENABLED Next

\* a consumer stage is at the sem_wait at the top of its loop, or has
\* nothing left to do but return
AtTop(t) ==
  \/ pc[t] = (CASE t = "IC" -> "ic_wait" [] t = "E" -> "e_wait"
                [] t = "OC" -> "oc_wait" [] OTHER -> "w_wait")
  \/ t = "IC" /\ pc[t] = "ic_count" /\ c[t] = EOF

\* the reset controller has passed its four waits and not yet unlocked
ResetPastWaits == pc["X"] \in {"x_z2", "x_log", "x_held"}
\* the reset controller is between its lock and its unlock
ResetHolds == pc["X"] \in {"x_wait", "x_z2", "x_log", "x_held"}
\* the reader is between its lock and its unlock
ReaderHolds == pc["R"] = "r_wait"

\* --------------------------------------------------------------- claims
\* C1: without reset, the bytes handed to write_output are at every moment
\* a prefix of transform(S[0]), ..., transform(S[k-1]) and are that whole
\* sequence once the Writer has exited.
C1_SinkIsTransformedInput ==
  IsText(S) =>
    /\ IsPrefix(sink, Transformed(S))
    /\ pc["W"] = "done" => sink = Transformed(S)

\* C1 witness: the Writer has exited after a file of at least two bytes went
\* through buffers of more than one slot.
C1_Witness ==
  /\ IsText(S) /\ Len(S) >= 2
  /\ n >= 2 /\ m >= 2
  /\ pc["W"] = "done"
  /\ sink = Transformed(S)

\* The same for the part of any file in front of its first byte 0xFF: this is
\* what the code delivers when the file does hold that byte.
SinkIsTransformedText ==
  /\ IsPrefix(sink, Transformed(TextPrefix(S)))
  /\ pc["W"] = "done" => sink = Transformed(TextPrefix(S))

\* C2: without reset no stage stays blocked forever: whenever no stage can
\* take a step, all five stage loops have exited.
C2_NoStageBlockedForever == PipelineStuck => AllExited

\* C3: between the four reset-ready waits of reset_requested and
\* reset_finished, every non-Reader stage is blocked at the data-ready wait
\* at the top of its loop or has exited.
C3_ResetQuiescent ==
  ResetPastWaits => \A t \in Consumers : AtTop(t) \/ pc[t] = "done"

\* what a run with n = m = 1 shows of a file, as far as the run has got
ReferenceBehaviour ==
  /\ IsPrefix(sink, Transformed(TextPrefix(S)))
  /\ SubBag(cin, TextPrefix(S))
  /\ SubBag(cout, Transformed(TextPrefix(S)))
  /\ PipelineStuck =>
       /\ AllExited
       /\ sink = Transformed(TextPrefix(S))
       /\ SameBag(cin, TextPrefix(S))
       /\ SameBag(cout, Transformed(TextPrefix(S)))

\* the runs with n = m = 1 behave as ReferenceBehaviour says
ReferenceIsCapacityOne == (n = 1 /\ m = 1) => ReferenceBehaviour

\* C4: for all capacities the sink, the bytes counted on input and on output
\* and the termination of the stages are those of the run with n = m = 1.
C4_CapacityInvariance == ReferenceBehaviour

\* C5: each of InputCounter, Encryptor, OutputCounter and Writer reads the
\* sentinel from its buffer exactly once: never twice, and once the pipeline
\* has come to rest, not zero times.
C5_SentinelExactlyOnce ==
  /\ \A t \in Consumers : eofSeen[t] <= 1
  /\ PipelineStuck => \A t \in Consumers : eofSeen[t] = 1

\* C6: on return of reset_requested the four cursors and both counters are
\* zero, the bytes already in the sink stay, and the sink still ends up with
\* exactly transform(S[0..k-1]) in order.
C6_ResetPreservesStream ==
  /\ pc["X"] = "x_held" =>
       /\ input_buffer_in = 0 /\ input_buffer_out = 0
       /\ output_buffer_in = 0 /\ output_buffer_out = 0
       /\ input_count = 0 /\ output_count = 0
  /\ IsPrefix(sink, Transformed(S))
  /\ pc["W"] = "done" => sink = Transformed(S)

\* C7: when log_counts is invoked in reset_requested after the Reader has
\* completed j items, count_input has been called for exactly those j bytes
\* and count_output for exactly their j transforms.
C7_ResetLogExact ==
  pc["X"] = "x_log" =>
    /\ cin = SubSeq(S, 1, completed)
    /\ cout = Transformed(SubSeq(S, 1, completed))

\* C8: with n = m = 1 and no reset, count_input and count_output are never
\* called with the sentinel, and once all stages have exited count_input has
\* been called with S[0], ..., S[k-1] and count_output with their transforms.
C8_ExactCounts ==
  (n = 1 /\ m = 1) =>
    /\ IsPrefix(cin, S)
    /\ IsPrefix(cout, Transformed(S))
    /\ AllExited => cin = S /\ cout = Transformed(S)

\* The same for the part of the file in front of its first byte 0xFF.
ExactCountsOfText ==
  (n = 1 /\ m = 1) =>
    /\ IsPrefix(cin, TextPrefix(S))
    /\ IsPrefix(cout, Transformed(TextPrefix(S)))
    /\ AllExited => cin = TextPrefix(S) /\ cout = Transformed(TextPrefix(S))

\* C9: the Reset Controller is never between its lock and its unlock while
\* the Reader is between its own lock and unlock; reader_lock is held by the
\* one that is.
C9_ReaderResetExclusion ==
  /\ ~(ResetHolds /\ ReaderHolds)
  /\ ResetHolds <=> reader_lock = "reset"
  /\ ReaderHolds <=> reader_lock = "reader"

\* C9 witness: a reset holds the lock after an item was processed while the
\* Reader stands at its lock with input left to read.
C9_Witness ==
  /\ pc["X"] = "x_held"
  /\ pc["R"] = "r_lock"
  /\ completed >= 1
  /\ pos < Len(S)

\* C10: every reset_requested returns and the Reader resumes: the program
\* never comes to rest with the Reset Controller inside its reset-ready
\* waits and the Reader blocked on reader_lock.
C10_ResetReturns == ~(Stuck /\ pc["X"] = "x_wait" /\ pc["R"] = "r_lock")

\* some stage thread has been created
Started == \E t \in Stages : pc[t] # "unborn"

\* C11: a buffer size < 1 typed at a prompt is fatal: once main has reported
\* one, no stage thread is ever started.
C11_BadCapacityIsFatal == rejected => ~Started

\* C11 as the code has it: a size < 1 is reported and asked for again; main
\* leaves a prompt only with a size >= 1, so the threads are started, after
\* any number of rejected sizes, with n >= 1 and m >= 1.
C11_BadCapacityAskedAgain ==
  /\ mainpc \in {"prompt_m", "alloc"} => n >= 1
  /\ mainpc = "alloc" => m >= 1
  /\ Started => n >= 1 /\ m >= 1
  /\ mainpc = "exit1" => ~Started

\* C11 witness: the pipeline ran to its end after a size was rejected.
C11_Witness == rejected /\ Started /\ mainpc = "exit" /\ Len(S) >= 1

\* the Encryptor has retired the Reader's current item (encryptor_done is
\* posted) while the InputCounter has not yet loaded it
CounterOvertaken ==
  pc["R"] = "r_wait" /\ sem["encryptor_done"] > 0 /\ sem["counter_data_ready"] > 0

\* C12: the counter of a buffer loads buffer[out] before the other reader of
\* the slot advances out, so the bytes the InputCounter loads are, in order,
\* the bytes the Reader wrote, and the bytes the OutputCounter loads are, in
\* order, the bytes the Encryptor wrote.
C12_CounterReadsBeforeRetire ==
  /\ ~CounterOvertaken
  /\ IsPrefix(cin, TextPrefix(S))
  /\ IsPrefix(cout, Transformed(TextPrefix(S)))

\* C12, its consequence alone: every counter loads the producer's bytes in order.
C12_CountersLoadInOrder ==
  /\ IsPrefix(cin, TextPrefix(S))
  /\ IsPrefix(cout, Transformed(TextPrefix(S)))

\* items written to a buffer and not yet retired by its advancing reader
InOutstanding == moved.in_written - moved.in_retired
OutOutstanding == moved.out_written - moved.out_retired

\* a consumer of the input / output buffer still has an item to load: its
\* data-ready semaphore holds a post of the producer's loop
InputUnread ==
  \/ pc["IC"] # "done" /\ sem["counter_data_ready"] > 0
  \/ pc["E"] # "done" /\ sem["encryptor_data_ready"] > 0
OutputUnread ==
  \/ pc["OC"] # "done" /\ sem["output_counter_data_ready"] > 0
  \/ pc["W"] # "done" /\ sem["writer_data_ready"] > 0

\* the slot the producer of a buffer writes next holds an item that one of
\* the buffer's two consumers has not loaded
InClobber == \E t \in {"IC", "E"} : <<"in", input_buffer_in, t>> \in unread
OutClobber == \E t \in {"OC", "W"} : <<"out", output_buffer_in, t>> \in unread

\* C13: without reset, the Reader is at most one item ahead of the
\* Encryptor's retiring and the Encryptor at most one ahead of the Writer's,
\* and a producer never writes to a slot whose item one of its two consumers
\* has not yet loaded.
C13_LockStep ==
  /\ InOutstanding \in {0, 1}
  /\ OutOutstanding \in {0, 1}
  /\ pc["R"] = "r_lock" => ~InClobber
  /\ pc["E"] \in {"e_write", "e_fwrite"} => ~OutClobber

\* What holds of C13 for all n and m: the two bounds, and a producer about to
\* write has no consumer left with a pending data-ready post (each consumer
\* has done a load for the item before, from whichever slot).
LockStepBound ==
  /\ InOutstanding \in {0, 1}
  /\ OutOutstanding \in {0, 1}
  /\ pc["R"] = "r_lock" => ~InputUnread
  /\ pc["E"] \in {"e_write", "e_fwrite"} => ~OutputUnread

\* With one slot per buffer C13 holds as stated.
LockStepOneSlot == (n = 1 /\ m = 1) => C13_LockStep

\* the InputCounter has posted counter_done and counter_reset_ready for a
\* data byte it has not yet handed to count_input
CountPending == pc["IC"] = "ic_count" /\ c["IC"] # EOF

\* C14: the InputCounter posts counter_done and counter_reset_ready for a
\* data byte only after count_input was called for it, so the bytes counted
\* are never fewer than the items for which the Reader has released the lock.
C14_CountBeforeDone ==
  /\ ~CountPending
  /\ completed <= Len(cin)

C16_SentinelNeverCollides ==
  /\ moved.in_eof > 0 => moved.in_written = Len(S) + 1
  /\ \A t \in {"R", "E"} : eofSeen[t] > 0 => pos = Len(S) /\ IsText(S)

\* main is past its five joins
JoinsReturned == mainpc \in {"destroy", "free", "log", "exit"}
\* main has destroyed the mutex and the semaphores
SyncDestroyed == mainpc \in {"free", "log", "exit"}
\* main has freed both buffers
BuffersFreed == mainpc \in {"log", "exit"}

\* C17: the mutex and the semaphores are destroyed, the buffers freed and the
\* final log_counts made only after all five stage threads have returned,
\* each non-Reader stage having read the sentinel from its buffer; from then
\* on no stage thread can take a step.
C17_ShutdownAfterJoins ==
  JoinsReturned =>
    /\ AllExited
    /\ \A t \in Consumers : eofSeen[t] >= 1 /\ c[t] = EOF
    /\ PipelineStuck

\* C17 witness: main has returned after a run with a data byte and a reset.
C17_Witness ==
  /\ mainpc = "exit" /\ BuffersFreed /\ SyncDestroyed
  /\ Len(S) >= 1 /\ resets >= 1
  /\ sink = Transformed(S)

\* C18: every data-ready and every stage-done semaphore holds 0 or 1.
C18_BinarySemaphores == \A s \in SemNames \ ResetReady : sem[s] \in {0, 1}

\* C18 witness: after a reset a reset-ready semaphore holds more than 1
\* while a data-ready and a stage-done semaphore hold 1.
C18_Witness ==
  /\ resets >= 1
  /\ \E s \in ResetReady : sem[s] > 1
  /\ sem["writer_data_ready"] = 1
  /\ sem["counter_done"] = 1

\* the Reader is between iterations or has left its loop
ReaderBetweenItems == pc["R"] \in {"r_lock", "r_fin", "done"}
\* reset_requested is between its assignments of lines 169 and 170
ResetMidZeroing == pc["X"] = "x_z2"
\* the data item the Encryptor holds is the byte of the file with the number
\* of its retirement: no input item was skipped or taken twice
EncryptorInStep ==
  pc["E"] \in {"e_write", "e_adv", "e_wait2"} =>
    /\ moved.in_retired \in 1..Len(S)
    /\ c["E"] = ToChar(S[moved.in_retired])

\* the Encryptor, the one stage that moves input_buffer_out, has a data-ready
\* post to take and is in, or on its way back to, the top of its loop
EncryptorLoadAhead ==
  /\ sem["encryptor_data_ready"] > 0
  /\ pc["E"] \in {"e_wait", "e_write", "e_adv", "e_wait2"}

\* C19: whenever the Reader does not hold reader_lock, also while the Reset
\* Controller holds it, input_buffer_in equals input_buffer_out.
C19_InputCursorsEqual == ReaderBetweenItems => input_buffer_in = input_buffer_out

\* C19 as the code has it: the two input cursors are equal whenever the
\* Reader does not hold reader_lock, except inside reset_requested between
\* the assignment of input_buffer_in and that of input_buffer_out; the
\* Encryptor has no input item to take then, and with resets it still takes
\* the bytes of the file one by one in order.
C19_InputCursorsEqualOutsideZeroing ==
  /\ (ReaderBetweenItems /\ ~ResetMidZeroing) => input_buffer_in = input_buffer_out
  /\ ResetMidZeroing => ReaderBetweenItems /\ ~EncryptorLoadAhead /\ input_buffer_in = 0
  /\ EncryptorInStep

\* C19 witness: a reset has zeroed cursors that stood at 1, and the Encryptor
\* then holds the second byte of the file.
C19_Witness ==
  /\ resets >= 1 /\ pc["X"] = "x_idle" /\ n >= 2
  /\ pc["E"] = "e_write" /\ moved.in_retired = 2
  /\ input_buffer_out = 1

====
